---- MODULE Spec2Model ----
(***************************************************************************)
(* State-machine model of egui_memory_editor's MemoryEditor (src/lib.rs):  *)
(* the builder methods, the per-frame render call draw_editor_contents     *)
(* with its keyboard handling, cell drawing and capability invocations.    *)
(***************************************************************************)
EXTENDS Integers, Sequences, FiniteSets, TLC

(* ------------------------------ bounds -------------------------------- *)
\* width of the modelled usize: addresses live in 0 .. 2^AddrBits - 1
AddrBits == 6
\* end of the address ranges registered in the editing specification
EditEnd == 4
\* end of the address ranges registered in the layout specification
LayoutEnd == 10

(* ------------------------- program constants -------------------------- *)
\* Option::None of an Option<Address>
None == -1
\* memory cells are laid out in clusters of 8 columns
ClusterWidth == 8
\* radix handed to u8::from_str_radix
Radix == 16
\* number of characters of the edit string that make a complete byte
ByteDigits == 2

Modulus == 2 ^ AddrBits

\* String keys in the order BTreeMap<String, _> iterates them
SortedNames == <<"A", "B">>
Names == {SortedNames[k] : k \in 1..Len(SortedNames)}
NameIndex(n) == CHOOSE k \in 1..Len(SortedNames) : SortedNames[k] = n

\* a BTreeMap entry that is not present
Absent == [start |-> None, end |-> None]

\* Range<Address>::contains
Contains(r, a) == r.start <= a /\ a < r.end
\* Range<Address>::len
RangeLen(r) == IF r.end > r.start THEN r.end - r.start ELSE 0

Min(a, b) == IF a < b THEN a ELSE b

\* the registrations offered to with_address_range in the two specifications:
\* a range that starts at 0 and one that does not
EditRanges == {<<"A", [start |-> 0, end |-> EditEnd]>>,
               <<"B", [start |-> 2, end |-> EditEnd + 1]>>}
LayoutRanges == {<<"A", [start |-> 0, end |-> LayoutEnd]>>,
                 <<"B", [start |-> 3, end |-> LayoutEnd + 4]>>}
EditColumns == {2, 3}
LayoutColumns == {3, 8, 9, 16}

\* the texts a frame can deliver to the focused edit widget: hex digits "9" and "F",
\* the non-hex "g", typed one at a time, two at a time, or pasted
Texts == {<<"9">>, <<"F">>, <<"g">>, <<"9", "F">>, <<"F", "9">>, <<"g", "F">>,
          <<"F", "F", "9">>}

\* window_name as MemoryEditor::new() sets it, and the titles the host passes
DefaultTitle == "Memory Editor"
Titles == {"Editor"}

\* the option bundles the host passes to with_options: fresh ones, whose
\* selected_address_range is the empty name, and ones kept from an earlier
\* session, which name a range of that session
OptionBundles ==
    [selected_address_range : Names \cup {""}, column_count : EditColumns,
     show_ascii : BOOLEAN]

Keys == {"ArrowLeft", "ArrowRight", "ArrowDown", "ArrowUp"}
\* the order in which handle_keyboard_edit_input scans the keys
KeyOrder == <<"ArrowLeft", "ArrowRight", "ArrowDown", "ArrowUp">>

VARIABLES
    pc,                                   \* "new" | "built" | "idle" | "rendered" | "panicked"
    window_name,                          \* MemoryEditor.window_name
    address_ranges,                       \* MemoryEditor.address_ranges
    selected_address_range,               \* options.selected_address_range
    column_count,                         \* options.column_count
    show_ascii,                           \* options.show_ascii
    selected_edit_address,                \* frame_data.selected_edit_address
    selected_edit_address_string,         \* frame_data.selected_edit_address_string
    selected_edit_address_request_focus,  \* frame_data.selected_edit_address_request_focus
    selected_highlight_address,           \* frame_data.selected_highlight_address
    visible_range,                        \* MemoryEditor.visible_range
    focus_id,                             \* the toolkit's focused widget: address of the edit cell, or None
    write_log,                            \* invocations of write_fn in the last render call
    read_log,                             \* invocations of read_fn in the last render call
    cells,                                \* <<row, column, address>> of the value cells drawn in the last render call
    max_lines,                            \* row count handed to show_rows in the last render call
    frame_input,                          \* the input of the render call that has just run
    before                                \* frame_data and focus as that render call found them

vars == <<pc, window_name, address_ranges, selected_address_range, column_count, show_ascii,
          selected_edit_address, selected_edit_address_string,
          selected_edit_address_request_focus, selected_highlight_address,
          visible_range, focus_id, write_log, read_log, cells, max_lines,
          frame_input, before>>

options == <<selected_address_range, column_count, show_ascii>>
frame_data == <<selected_edit_address, selected_edit_address_string,
                selected_edit_address_request_focus, selected_highlight_address>>
frame_logs == <<write_log, read_log, cells, max_lines, frame_input, before>>

(* -------------------------- small helpers ----------------------------- *)
RegisteredNames == {n \in Names : address_ranges[n] # Absent}

\* BTreeMap::iter().next(): the entry with the smallest key
FirstKey(m) ==
    LET keys == {n \in Names : m[n] # Absent}
    IN CHOOSE n \in keys : \A o \in keys : NameIndex(n) <= NameIndex(o)

\* char::is_ascii_hexdigit
IsAsciiHexdigit(c) ==
    c \in {"0", "1", "2", "3", "4", "5", "6", "7", "8", "9",
           "a", "b", "c", "d", "e", "f", "A", "B", "C", "D", "E", "F"}

\* char::to_digit(16) on a hex digit
HexVal(c) ==
    CASE c = "0" -> 0 [] c = "1" -> 1 [] c = "2" -> 2 [] c = "3" -> 3
      [] c = "4" -> 4 [] c = "5" -> 5 [] c = "6" -> 6 [] c = "7" -> 7
      [] c = "8" -> 8 [] c = "9" -> 9
      [] c \in {"a", "A"} -> 10 [] c \in {"b", "B"} -> 11 [] c \in {"c", "C"} -> 12
      [] c \in {"d", "D"} -> 13 [] c \in {"e", "E"} -> 14 [] c \in {"f", "F"} -> 15

\* String::retain(|c| c.is_ascii_hexdigit())
RetainHex(str) == SelectSeq(str, IsAsciiHexdigit)

\* variant of ParseHexByte that reads the two digits low nibble first
ParseHexByteSwapped(str) ==
    IF IsAsciiHexdigit(str[1]) /\ IsAsciiHexdigit(str[2])
    THEN HexVal(str[2]) * Radix + HexVal(str[1])
    ELSE None

\* u8::from_str_radix(&string[0..2], 16): None when a character is no digit
ParseHexByte(str) ==
    IF IsAsciiHexdigit(str[1]) /\ IsAsciiHexdigit(str[2])
    THEN HexVal(str[1]) * Radix + HexVal(str[2])
    ELSE None

\* selected_edit_address_string.chars().count() >= 2
EditComplete(str) == Len(str) >= ByteDigits

\* the address a completed entry advances to
AdvanceAddress(memory_address) == memory_address + 1

\* variant of MaxLines that rounds the row count down
MaxLinesFloor(space, cc) == RangeLen(space) \div cc

\* (address_space.len() + column_count - 1) / column_count
MaxLines(space, cc) == (RangeLen(space) + cc - 1) \div cc

\* start_address of a row
RowStart(space, cc, row) == space.start + row * cc

\* number of clusters of a row: (column_count + 7) / 8
ClusterCount(cc) == (cc + (ClusterWidth - 1)) \div ClusterWidth

\* number of columns of cluster g: (column_count - 8 * grid_column).min(8)
ClusterColumns(cc, g) == Min(cc - ClusterWidth * g, ClusterWidth)

\* memory_address of column i of cluster g of the row starting at row_start
CellAddress(row_start, g, i) == row_start + ClusterWidth * g + i

\* variant of CellInRange that takes the end of the range as drawable
CellInRangeInclusive(space, a) == space.start <= a /\ a <= space.end

\* the value cells and the sidebar draw an address only if address_space.contains it
CellInRange(space, a) == Contains(space, a)

\* let mut read_only = selected_edit_address.is_none() || write_fn.is_none()
ReadOnly(edit, write) == edit = None \/ ~write

\* variant of ClickArms that arms without a write capability
ClickArmsAlways(write) == TRUE

\* a primary click arms the cell only if a write capability was supplied
ClickArms(write) == write

\* the first of the scanned keys that is pressed, or None
KeyPressed(keys) ==
    LET hit == {k \in 1..Len(KeyOrder) : KeyOrder[k] \in keys}
    IN IF hit = {} THEN "NoKey"
       ELSE KeyOrder[CHOOSE k \in hit : \A o \in hit : k <= o]

\* next_address of handle_keyboard_edit_input, as a mathematical integer
ArrowTarget(key, current_address, cc) ==
    CASE key = "ArrowDown" -> current_address + cc
      [] key = "ArrowLeft" -> current_address - 1
      [] key = "ArrowRight" -> current_address + 1
      [] key = "ArrowUp" -> IF current_address < cc THEN 0 ELSE current_address - cc

\* whether a usize computation left 0 .. 2^w - 1
Overflows(x) == x < 0 \/ x >= Modulus
\* the value a wrapping build stores
Wrap(x) == x % Modulus

(* ------------- BetweenFrameData (option_data, not in src/) ------------ *)
\* set_selected_edit_address(new_address, address_space): focus is requested, the
\* edit string is cleared, and an address outside the address space disarms
set_selected_edit_address(s, new_address, space) ==
    [s EXCEPT !.req = TRUE,
              !.str = <<>>,
              !.edit = IF new_address # None /\ Contains(space, new_address)
                       THEN new_address ELSE None]

\* set_highlight_address(address)
set_highlight_address(s, address) == [s EXCEPT !.hl = address]

(* ------------------------- one frame's input -------------------------- *)
\* What the host and the toolkit hand to one render call: whether a write_fn was
\* supplied, the keys pressed, the cell clicked (primary / secondary), the text the
\* focused edit widget receives, whether focus was taken away, and the rows
\* <<first, end>> the scroll area reports visible.
NoInput == [write |-> FALSE, keys |-> {}, click |-> None, secondary |-> None,
            text |-> <<>>, blur |-> FALSE, rows |-> <<0, 0>>]

KeySets == {{k} : k \in Keys} \cup {{"ArrowRight", "ArrowUp"}}

\* the row windows show_rows can report for ml rows: at least one row, at most ml
RowWindows(ml) ==
    IF ml = 0 THEN {<<0, 0>>}
    ELSE {w \in (0..ml) \X (0..ml) : w[1] < w[2]}

\* the addresses of the cells of the rows r0 .. r1 - 1
RowAddresses(space, cc, rows) ==
    {a \in space.start .. space.end - 1 :
        RowStart(space, cc, rows[1]) <= a /\ a < RowStart(space, cc, rows[2])}

(* ------------------------- drawing one frame -------------------------- *)
\* variant of TextEditShow in which the widget takes the typed text without focus
TextEditShowUnfocused(s, m, inp) ==
    [s EXCEPT !.str = RetainHex(s.str \o inp.text),
              !.shown = @ \cup {m},
              !.focus = IF s.req THEN m ELSE @,
              !.req = FALSE]

\* TextEdit::singleline on the armed cell: a focused widget takes the typed text; a
\* requested focus is given (the flag is cleared); non-hex characters are dropped
TextEditShow(s, m, inp) ==
    [s EXCEPT !.str = RetainHex(IF s.focus = m THEN s.str \o inp.text ELSE s.str),
              !.shown = @ \cup {m},
              !.focus = IF s.req THEN m ELSE @,
              !.req = FALSE]

\* write_fns(mem, memory_address, value), when the two characters parsed
WriteByte(s, m, value, write) ==
    IF value # None /\ write THEN [s EXCEPT !.writes = Append(@, <<m, value>>)] ELSE s

\* after the edit widget was shown: a complete entry is written and the cell
\* advances; an incomplete entry without focus disarms
EditCommit(s, m, space, inp) ==
    IF EditComplete(s.str)
    THEN set_selected_edit_address(WriteByte(s, m, ParseHexByte(s.str), inp.write),
                                   AdvanceAddress(m), space)
    ELSE IF s.focus # m
         THEN [set_selected_edit_address(s, None, space) EXCEPT !.ro = TRUE]
         ELSE s

\* the editing branch of draw_memory_values: the TextEdit of the armed cell
EditCell(s, m, space, inp) == EditCommit(TextEditShow(s, m, inp), m, space, inp)

\* response.inner.secondary_clicked()
SecondaryClick(s, m, inp) ==
    IF inp.secondary = m THEN set_highlight_address(s, m) ELSE s

\* response.inner.clicked()
PrimaryClick(s, m, space, inp) ==
    IF inp.click = m
    THEN IF ClickArms(inp.write)
         THEN set_selected_edit_address(s, m, space)
         ELSE set_highlight_address(s, m)
    ELSE s

\* the read-only branch of draw_memory_values: a clickable label
LabelCell(s, m, space, inp) == PrimaryClick(SecondaryClick(s, m, inp), m, space, inp)

\* read_fn(mem, memory_address) of a value cell
ReadCell(s, m, row, col) ==
    [s EXCEPT !.reads = @ \cup {<<"hex", m>>}, !.cells = @ \cup {<<row, col, m>>}]

\* the widget of a value cell: the edit widget on the armed cell, else a label
CellWidget(s, m, space, inp) ==
    IF ~s.ro /\ s.edit = m THEN EditCell(s, m, space, inp) ELSE LabelCell(s, m, space, inp)

\* one value cell
DrawCell(s, m, row, col, space, inp) == CellWidget(ReadCell(s, m, row, col), m, space, inp)

\* the columns i, i+1, ... of cluster g; an address outside the range ends the cluster
RECURSIVE DrawColumns(_, _, _, _, _, _, _, _)
DrawColumns(s, row, row_start, g, i, cc, space, inp) ==
    IF i >= ClusterColumns(cc, g) \/ ~CellInRange(space, CellAddress(row_start, g, i))
    THEN s
    ELSE DrawColumns(DrawCell(s, CellAddress(row_start, g, i), row,
                              ClusterWidth * g + i, space, inp),
                     row, row_start, g, i + 1, cc, space, inp)

RECURSIVE DrawClusters(_, _, _, _, _, _, _)
DrawClusters(s, row, row_start, g, cc, space, inp) ==
    IF g >= ClusterCount(cc) THEN s
    ELSE DrawClusters(DrawColumns(s, row, row_start, g, 0, cc, space, inp),
                      row, row_start, g + 1, cc, space, inp)

draw_memory_values(s, row, row_start, cc, space, inp) ==
    DrawClusters([s EXCEPT !.ro = ReadOnly(s.edit, inp.write)],
                 row, row_start, 0, cc, space, inp)

RECURSIVE draw_ascii_sidebar(_, _, _, _, _)
draw_ascii_sidebar(s, row_start, i, cc, space) ==
    IF i >= cc \/ ~CellInRange(space, row_start + i) THEN s
    ELSE draw_ascii_sidebar([s EXCEPT !.reads = @ \cup {<<"ascii", row_start + i>>}],
                            row_start, i + 1, cc, space)

\* one row of the grid: the value cells, then the sidebar if show_ascii
DrawRow(s, row, row_start, cc, space, inp, ascii) ==
    IF ascii
    THEN draw_ascii_sidebar(draw_memory_values(s, row, row_start, cc, space, inp),
                            row_start, 0, cc, space)
    ELSE draw_memory_values(s, row, row_start, cc, space, inp)

\* for start_row in line_range
RECURSIVE DrawRows(_, _, _, _, _, _, _)
DrawRows(s, row, row_end, cc, space, inp, ascii) ==
    IF row >= row_end THEN s
    ELSE DrawRows(DrawRow(s, row, RowStart(space, cc, row), cc, space, inp, ascii),
                  row + 1, row_end, cc, space, inp, ascii)

\* handle_keyboard_edit_input, in a build whose arithmetic wraps
handle_keyboard_edit_input(s, space, cc, keys) ==
    IF s.edit = None \/ KeyPressed(keys) = "NoKey" THEN s
    ELSE set_selected_edit_address(s, Wrap(ArrowTarget(KeyPressed(keys), s.edit, cc)), space)

\* whether handle_keyboard_edit_input leaves the range of usize
KeyOverflows(edit, cc, keys) ==
    /\ edit # None
    /\ KeyPressed(keys) # "NoKey"
    /\ Overflows(ArrowTarget(KeyPressed(keys), edit, cc))

\* frame_data and the toolkit's focus as the render call finds them; a blur has
\* taken the focus away before the frame is drawn
FrameState(inp) ==
    [edit |-> selected_edit_address, str |-> selected_edit_address_string,
     req |-> selected_edit_address_request_focus, hl |-> selected_highlight_address,
     focus |-> IF inp.blur THEN None ELSE focus_id,
     writes |-> <<>>, reads |-> {}, cells |-> {}, ro |-> FALSE, shown |-> {}]

\* the toolkit drops the focus of a widget that was not shown in the frame
EndFrame(s) == [s EXCEPT !.focus = IF @ \in s.shown THEN @ ELSE None]

\* the state at the end of draw_editor_contents for input inp, rows being visible
draw_editor_contents(inp, space, rows) ==
    EndFrame(DrawRows(handle_keyboard_edit_input(FrameState(inp), space, column_count, inp.keys),
                      rows[1], rows[2], column_count, space, inp, show_ascii))

(* --------------------- the inputs a frame can bring ------------------- *)
\* the selected range, resolved as draw_editor_contents resolves it
CurrentSpace == address_ranges[selected_address_range]
CurrentLines == MaxLines(CurrentSpace, column_count)

\* the scroll position persists: without a scroll the window of the last frame is
\* reported again; the first frame, and one whose layout changed, reports any window
LastWindow == <<visible_range.start, visible_range.end>>
KeptWindows ==
    IF LastWindow \in RowWindows(CurrentLines)
    THEN {LastWindow} ELSE RowWindows(CurrentLines)

\* frames of the layout specification: the user scrolls or does nothing
LayoutInputs == {[NoInput EXCEPT !.rows = w] : w \in RowWindows(CurrentLines)}

\* the events of an editing frame, the window being w
EditEvents(w) ==
    {[NoInput EXCEPT !.rows = w], [NoInput EXCEPT !.rows = w, !.blur = TRUE]}
      \cup {[NoInput EXCEPT !.rows = w, !.keys = k] : k \in KeySets}
      \cup {[NoInput EXCEPT !.rows = w, !.click = a] :
                a \in RowAddresses(CurrentSpace, column_count, w)}
      \cup {[NoInput EXCEPT !.rows = w, !.secondary = a] :
                a \in RowAddresses(CurrentSpace, column_count, w)}
      \cup {[NoInput EXCEPT !.rows = w, !.text = t] : t \in Texts}

\* one user event per frame (a scroll, or an event in the kept window), with and
\* without a write capability
EditInputs ==
    {[e EXCEPT !.write = wr] :
        e \in LayoutInputs \cup UNION {EditEvents(w) : w \in KeptWindows},
        wr \in BOOLEAN}

(* ------------------------------ actions ------------------------------- *)
NoSnapshot == [edit |-> None, str |-> <<>>, req |-> FALSE, hl |-> None, focus |-> None]

\* frame_data and the toolkit's focus, as a render call finds them
Snapshot ==
    [edit |-> selected_edit_address, str |-> selected_edit_address_string,
     req |-> selected_edit_address_request_focus, hl |-> selected_highlight_address,
     focus |-> focus_id]

\* MemoryEditor::new(); the host has set options.column_count and options.show_ascii
InitWith(columns, sidebars) ==
    /\ pc = "new"
    /\ window_name = DefaultTitle
    /\ address_ranges = [n \in Names |-> Absent]
    /\ selected_address_range = ""
    /\ column_count \in columns
    /\ show_ascii \in sidebars
    /\ selected_edit_address = None
    /\ selected_edit_address_string = <<>>
    /\ selected_edit_address_request_focus = FALSE
    /\ selected_highlight_address = None
    /\ visible_range = [start |-> 0, end |-> 0]
    /\ focus_id = None
    /\ write_log = <<>>
    /\ read_log = {}
    /\ cells = {}
    /\ max_lines = 0
    /\ frame_input = NoInput
    /\ before = NoSnapshot

Init == InitWith(EditColumns, {TRUE})
InitLayout == InitWith(LayoutColumns, BOOLEAN)

\* MemoryEditor::with_address_range(range_name, address_range), in the builder chain
with_address_range(range_name, address_range) ==
    /\ pc \in {"new", "built"}
    /\ pc' = "built"
    /\ address_ranges' = [address_ranges EXCEPT ![range_name] = address_range]
    /\ selected_address_range' = FirstKey(address_ranges')
    /\ UNCHANGED <<window_name, column_count, show_ascii, frame_data, visible_range,
                   focus_id, frame_logs>>

\* the host writes the public options field between frames
set_column_count(c) ==
    /\ pc \in {"built", "idle"}
    /\ c # column_count
    /\ pc' = "idle"
    /\ column_count' = c
    /\ UNCHANGED <<window_name, address_ranges, selected_address_range, show_ascii,
                   frame_data, visible_range, focus_id, frame_logs>>

set_show_ascii(b) ==
    /\ pc \in {"built", "idle"}
    /\ b # show_ascii
    /\ pc' = "idle"
    /\ show_ascii' = b
    /\ UNCHANGED <<window_name, address_ranges, selected_address_range, column_count,
                   frame_data, visible_range, focus_id, frame_logs>>

select_range(name) ==
    /\ pc \in {"built", "idle"}
    /\ name \in RegisteredNames
    /\ name # selected_address_range
    /\ pc' = "idle"
    /\ selected_address_range' = name
    /\ UNCHANGED <<window_name, address_ranges, column_count, show_ascii,
                   frame_data, visible_range, focus_id, frame_logs>>

\* the render call panics with input inp: the editor is not used again
Panic(inp) ==
    /\ pc' = "panicked"
    /\ frame_input' = inp
    /\ before' = Snapshot
    /\ UNCHANGED <<window_name, address_ranges, options, frame_data, visible_range,
                   focus_id, write_log, read_log, cells, max_lines>>

\* the fields a finished render call leaves behind
Rendered(s, inp, ml) ==
    /\ pc' = "rendered"
    /\ selected_edit_address' = s.edit
    /\ selected_edit_address_string' = s.str
    /\ selected_edit_address_request_focus' = s.req
    /\ selected_highlight_address' = s.hl
    /\ focus_id' = s.focus
    /\ visible_range' = [start |-> inp.rows[1], end |-> inp.rows[2]]
    /\ write_log' = s.writes
    /\ read_log' = s.reads
    /\ cells' = s.cells
    /\ max_lines' = ml
    /\ frame_input' = inp
    /\ before' = Snapshot
    /\ UNCHANGED <<window_name, address_ranges, options>>

\* draw_editor_contents with input inp; checked: the build traps arithmetic overflow
RenderWith(inp, checked) ==
    IF checked /\ KeyOverflows(selected_edit_address, column_count, inp.keys)
    THEN Panic(inp)
    ELSE Rendered(draw_editor_contents(inp, CurrentSpace, inp.rows), inp, CurrentLines)

\* a render call (window_ui, window_ui_read_only, draw_editor_contents) of a frame;
\* without a registered, selected range the call panics
Render(layout_only) ==
    /\ pc \in {"new", "built", "idle"}
    /\ IF RegisteredNames = {} \/ selected_address_range \notin RegisteredNames
       THEN Panic(NoInput)
       ELSE \E inp \in (IF layout_only THEN LayoutInputs ELSE EditInputs) :
                \E checked \in (IF KeyOverflows(selected_edit_address, column_count, inp.keys)
                                THEN BOOLEAN ELSE {FALSE}) :
                    RenderWith(inp, checked)

\* the render call has returned and the frame ends: the per-frame records are dropped
end_frame ==
    /\ pc = "rendered"
    /\ pc' = "idle"
    /\ write_log' = <<>>
    /\ read_log' = {}
    /\ cells' = {}
    /\ max_lines' = 0
    /\ frame_input' = NoInput
    /\ before' = NoSnapshot
    /\ UNCHANGED <<window_name, address_ranges, options, frame_data, visible_range,
                   focus_id>>

Next ==
    \/ \E r \in EditRanges : with_address_range(r[1], r[2])
    \/ \E n \in Names : select_range(n)
    \/ Render(FALSE)
    \/ end_frame

Spec == Init /\ [][Next]_vars

NextLayout ==
    \/ \E r \in LayoutRanges : with_address_range(r[1], r[2])
    \/ \E c \in LayoutColumns : set_column_count(c)
    \/ \E b \in BOOLEAN : set_show_ascii(b)
    \/ Render(TRUE)
    \/ end_frame

SpecLayout == InitLayout /\ [][NextLayout]_vars

\* MemoryEditor::with_window_title(title), in the builder chain
with_window_title(title) ==
    /\ pc \in {"new", "built"}
    /\ title # window_name
    /\ window_name' = title
    /\ UNCHANGED <<pc, address_ranges, options, frame_data, visible_range, focus_id,
                   frame_logs>>

\* MemoryEditor::with_options(options), in the builder chain: the bundle replaces
\* self.options, its selected_address_range included
with_options(o) ==
    /\ pc \in {"new", "built"}
    /\ o # [selected_address_range |-> selected_address_range,
            column_count |-> column_count, show_ascii |-> show_ascii]
    /\ selected_address_range' = o.selected_address_range
    /\ column_count' = o.column_count
    /\ show_ascii' = o.show_ascii
    /\ UNCHANGED <<pc, window_name, address_ranges, frame_data, visible_range,
                   focus_id, frame_logs>>

\* the builder calls in any order, followed by frames without user events
NextBuilder ==
    \/ \E t \in Titles \cup {DefaultTitle} : with_window_title(t)
    \/ \E r \in EditRanges : with_address_range(r[1], r[2])
    \/ \E o \in OptionBundles : with_options(o)
    \/ Render(TRUE)
    \/ end_frame

SpecBuilder == Init /\ [][NextBuilder]_vars

(* ------------------------------ claims -------------------------------- *)
\* a render call has just returned
Drawn == pc = "rendered"

\* the address space that call resolved
Space == address_ranges[selected_address_range]

\* the cell of address a was drawn in that call
Visible(a) == a \in RowAddresses(Space, column_count, frame_input.rows)

\* that call found an armed cell whose edit widget had focus and was drawn
EditFrame ==
    /\ Drawn
    /\ before.edit # None
    /\ before.focus = before.edit
    /\ Visible(before.edit)

\* the frame brought text to the edit widget and nothing else, with a write capability
Typed(t) == frame_input = [NoInput EXCEPT !.write = TRUE, !.text = t, !.rows = frame_input.rows]

\* the frame brought a primary click on a and nothing else
Clicked(wr, a) == frame_input = [NoInput EXCEPT !.write = wr, !.click = a, !.rows = frame_input.rows]

\* the frame brought the key k and nothing else
Pressed(k) ==
    frame_input = [NoInput EXCEPT !.write = frame_input.write, !.keys = {k},
                                  !.rows = frame_input.rows]

\* the byte two typed characters denote in base 16
ByteOf(c1, c2) ==
    CASE <<c1, c2>> = <<"9", "9">> -> 153
      [] <<c1, c2>> = <<"9", "F">> -> 159
      [] <<c1, c2>> = <<"F", "9">> -> 249
      [] <<c1, c2>> = <<"F", "F">> -> 255

HexTyped == {"9", "F"}

\* the cell armed after a completed entry at a: the next address, while in the range
Advanced(a) == IF a + 1 < Space.end THEN a + 1 ELSE None

\* C1 (as claimed): in a chain of with_address_range calls on a new editor, the
\* first call selects the range it adds, and no later call changes the selection:
\* selected_address_range is the name that was added first.
C1_FirstAddedSelected ==
    [][pc' = "built" =>
          IF pc = "new"
          THEN {n \in Names : address_ranges'[n] # Absent} = {selected_address_range'}
          ELSE selected_address_range' = selected_address_range]_vars

C3_ReadOnlyClick ==
    (Drawn /\ Clicked(FALSE, frame_input.click) /\ Visible(frame_input.click))
    => /\ selected_edit_address = before.edit
       /\ selected_edit_address_string = before.str
       /\ selected_highlight_address = frame_input.click
       /\ write_log = <<>>

\* C3 witness: no cell was armed, cell 3 was clicked in a read-only frame, and the
\* frame ended with cell 3 highlighted and no cell armed
C3_Witness ==
    /\ Drawn
    /\ Clicked(FALSE, 3)
    /\ Visible(3)
    /\ before.edit = None
    /\ before.hl # 3
    /\ selected_highlight_address = 3
    /\ selected_edit_address = None

\* a render call has run, to its end or into a panic
Called == pc \in {"rendered", "panicked"}

C5_ArrowStaysInRange ==
    \A k \in Keys :
        (Called /\ Pressed(k) /\ Contains(Space, before.edit))
        => /\ pc = "rendered"
           /\ Contains(Space, selected_edit_address)

\* C6: every address a render call hands to the read capability, from a value cell
\* or from the ASCII sidebar, lies in the selected address range.
C6_ReadsInRange ==
    Drawn => \A r \in read_log : Space.start <= r[2] /\ r[2] < Space.end

\* C6 witness: a frame that drew the last row, which is only partly filled, with
\* the sidebar shown and more than one cluster of columns: the last address of the
\* range was read by a value cell and by the sidebar
C6_Witness ==
    /\ Drawn
    /\ show_ascii
    /\ column_count > ClusterWidth
    /\ RangeLen(Space) % column_count # 0
    /\ <<"hex", Space.end - 1>> \in read_log
    /\ <<"ascii", Space.end - 1>> \in read_log
    /\ frame_input.rows[2] = max_lines

\* the least n with n * d >= x
CeilDiv(x, d) == CHOOSE n \in 0..x : n * d >= x /\ \A k \in 0..x : k * d >= x => n <= k

\* C7: the row count given to the scroll area is ceil(len / column_count); in every
\* visible row r the cell drawn at column c has address start + r * column_count + c,
\* a cell is drawn for each (r, c) where that value is below the end of the range,
\* and when all rows are visible every address of the range is drawn in exactly
\* one cell.
C7_LayoutMapping ==
    Drawn =>
        /\ max_lines = CeilDiv(RangeLen(Space), column_count)
        /\ \A x \in cells :
              /\ frame_input.rows[1] <= x[1] /\ x[1] < frame_input.rows[2]
              /\ 0 <= x[2] /\ x[2] < column_count
              /\ x[3] = Space.start + x[1] * column_count + x[2]
              /\ x[3] < Space.end
        /\ \A r \in frame_input.rows[1] .. frame_input.rows[2] - 1 :
              \A c \in 0 .. column_count - 1 :
                  Space.start + r * column_count + c < Space.end
                  => <<r, c, Space.start + r * column_count + c>> \in cells
        /\ frame_input.rows = <<0, max_lines>>
           => \A a \in Space.start .. Space.end - 1 :
                  Cardinality({x \in cells : x[3] = a}) = 1

\* C7 witness: all rows of a range whose start is not 0 were drawn with 9 columns,
\* so that a cell of the second cluster (column 8) and a partly filled row exist
C7_Witness ==
    /\ Drawn
    /\ Space.start > 0
    /\ column_count = ClusterWidth + 1
    /\ frame_input.rows = <<0, max_lines>>
    /\ max_lines > 1
    /\ <<0, ClusterWidth, Space.start + ClusterWidth>> \in cells
    /\ <<1, 0, Space.start + column_count>> \in cells

\* C8 (as claimed): after a render call visible_range is the range of the addresses
\* that were rendered: an address lies in it exactly when a cell was drawn for it.
C8_VisibleRangeIsAddresses ==
    Drawn => \A a \in 0 .. (Modulus - 1) :
                (visible_range.start <= a /\ a < visible_range.end)
                <=> (\E x \in cells : x[3] = a)

\* the hex digits among the characters of a text
HexOnly(t) == SelectSeq(t, LAMBDA c : c \in HexTyped)

\* C9: a render call invokes the write capability at most once, and only if a write
\* capability was supplied, a cell was armed, and the edit buffer with the text of
\* the frame holds two hex digits; the write goes to the armed address with the byte
\* of the first two digits, and the buffer is empty afterwards; no frame ends with
\* a complete entry in the buffer, so no entry is written again in a later frame.
C9_WriteOncePerEntry ==
    Drawn =>
        /\ Len(write_log) <= 1
        /\ Len(selected_edit_address_string) < ByteDigits
        /\ write_log # <<>> =>
              LET buffer == HexOnly(before.str \o frame_input.text)
              IN /\ frame_input.write
                 /\ before.edit # None
                 /\ frame_input.keys = {}
                 /\ Len(buffer) >= 2
                 /\ write_log[1] = <<before.edit, ByteOf(buffer[1], buffer[2])>>
                 /\ selected_edit_address_string = <<>>

\* C9 witness: three characters arrived in one frame at the armed, focused cell:
\* one write, with the byte of the first two, and the next cell was drawn armed
C9_Witness ==
    /\ EditFrame
    /\ Typed(<<"F", "F", "9">>)
    /\ write_log = <<<<before.edit, 255>>>>
    /\ selected_edit_address = before.edit + 1
    /\ Visible(selected_edit_address)

\* C10 (as claimed): a render call without a write capability that finds a cell
\* armed ends with no cell armed.
C10_ReadOnlyDisarms ==
    (Drawn /\ ~frame_input.write /\ before.edit # None)
    => selected_edit_address = None

\* C11 (as claimed): once a chain of builder calls holds a with_address_range,
\* selected_address_range names a registered range, whatever the order of the
\* calls; a render call panics only if no range is registered.
C11_SelectedRangeRegistered ==
    /\ (pc \in {"new", "built"} /\ RegisteredNames # {})
       => selected_address_range \in RegisteredNames
    /\ pc = "panicked" => RegisteredNames = {}

====
